---- MODULE Spec2Model ----
(***************************************************************************)
(* Model of src/main.py: a FastAPI service that builds a FAISS knowledge   *)
(* base once in its lifespan start-up and answers /ask requests from it.   *)
(*                                                                         *)
(* Texts are sequences of one-character strings.  The process runs one     *)
(* asyncio event loop; lifespan start-up contains no await and each        *)
(* endpoint coroutine contains no await, so a handler runs to completion   *)
(* once the loop has picked its request.                                   *)
(***************************************************************************)
EXTENDS Integers, Sequences, FiniteSets, TLC

VARIABLES
    pc,                   \* position of lifespan(): start, fetch, split, embed, index, serving, stopped
    raw_text,             \* local raw_text of lifespan (line 54)
    source_chunks,        \* local source_chunks of lifespan (line 56)
    embedded,             \* vectors computed so far inside FAISS.from_documents (line 58)
    build_error,          \* the step whose exception line 61 logged, "none" if none
    vector_db,            \* global vector_db (line 26): None or Some(index)
    total_requests_count, \* global total_requests_count (line 25)
    reqs,                 \* the /ask requests: arrival, question and response
    gets,                 \* number of GET / and GET /stats requests served
    shown                 \* the last GET response: endpoint and the counter value it carried

vars == <<pc, raw_text, source_chunks, embedded, build_error, vector_db,
          total_requests_count, reqs, gets, shown>>

----------------------------------------------------------------------------
(* Bounds of the model *)

MaxReqs == 2
MaxGets == 2

----------------------------------------------------------------------------
(* Texts *)

IsSpace(c) == c \in {" ", "\n"}

RECURSIVE LStrip(_)
LStrip(s) ==
    IF s = <<>> THEN s
    ELSE IF IsSpace(Head(s)) THEN LStrip(Tail(s)) ELSE s

RECURSIVE RStrip(_)
RStrip(s) ==
    IF s = <<>> THEN s
    ELSE IF IsSpace(s[Len(s)]) THEN RStrip(SubSeq(s, 1, Len(s) - 1)) ELSE s

\* str.strip()
Strip(s) == RStrip(LStrip(s))

\* sep.join(parts)
RECURSIVE Join(_, _)
Join(parts, sep) ==
    IF parts = <<>> THEN <<>>
    ELSE IF Len(parts) = 1 THEN parts[1]
    ELSE parts[1] \o sep \o Join(Tail(parts), sep)

Count(t, c) == Cardinality({i \in DOMAIN t : t[i] = c})

----------------------------------------------------------------------------
(* The external collaborators *)

\* Documents the Google Docs export can return, each given as the segments
\* the splitter cuts it into, before the splitter strips them.
Documents ==
    { <<>>,
      << <<" ", "\n">> >>,
      << <<"a">>, <<" ", "b", "\n">> >>,
      << <<"a">>, <<"b">>, <<"a", " ", "b">>, <<"\n">>, <<"a", "a", "b">>,
         <<"a", "b", "b", " ">>, <<"a", "a">> >> }

\* Questions a client can send
Questions == { <<"a">>, <<"b", " ", "b">> }

\* The embedding model: a text's vector
Embed(t) == <<Count(t, "a"), Count(t, "b")>>

\* The L2 distance FAISS' flat index ranks by (squared)
Distance(u, v) == (u[1] - v[1]) * (u[1] - v[1]) + (u[2] - v[2]) * (u[2] - v[2])

----------------------------------------------------------------------------
(* Values *)

None == <<>>
Some(ix) == <<ix>>

K == 4
NotReadyStatus == 503
ProcessingErrorStatus == 500
OkStatus == 200

NoRequest ==
    [state |-> "none", question |-> <<>>, status |-> 0, searched |-> FALSE,
     generated |-> FALSE, docs |-> <<>>, context |-> <<>>, observed |-> "none"]

LoadingPcs == {"fetch", "split", "embed", "index"}

\* The knowledge-base lifecycle the globals and the position of lifespan() amount to
Lifecycle ==
    IF pc = "start" THEN "Uninitialized"
    ELSE IF pc \in LoadingPcs THEN "Loading"
    ELSE IF pc = "stopped" THEN "Stopped"
    ELSE IF vector_db = None THEN "Failed"
    ELSE "Ready"

Init ==
    /\ pc = "start"
    /\ raw_text = <<>>
    /\ source_chunks = <<>>
    /\ embedded = <<>>
    /\ build_error = "none"
    /\ vector_db = None
    /\ total_requests_count = 0
    /\ reqs = [r \in 1..MaxReqs |-> NoRequest]
    /\ gets = 0
    /\ shown = [endpoint |-> "none", total |-> 0]

----------------------------------------------------------------------------
(* lifespan(): the start-up build and the shutdown *)

\* RecursiveCharacterTextSplitter.create_documents: the segments, each
\* stripped of surrounding whitespace, the empty ones dropped
RECURSIVE CreateDocuments(_)
CreateDocuments(segments) ==
    IF segments = <<>> THEN <<>>
    ELSE LET text == Strip(Head(segments))
             rest == CreateDocuments(Tail(segments))
         IN  IF text = <<>> THEN rest ELSE <<text>> \o rest

\* The index FAISS.from_documents returns: one entry per chunk, in order
BuildIndex(chunks, vectors) ==
    [i \in 1..Len(chunks) |-> [vector |-> vectors[i], page_content |-> chunks[i]]]

\* lifespan is entered: "Загрузка базы знаний..." is printed and the try block begins
StartLifespan ==
    /\ pc = "start"
    /\ pc' = "fetch"
    /\ UNCHANGED <<raw_text, source_chunks, embedded, build_error, vector_db,
                   total_requests_count, reqs, gets, shown>>

\* raw_text = load_document_text(doc_url), the export answering with a document
LoadDocumentText ==
    /\ pc = "fetch"
    /\ \E d \in Documents : raw_text' = d
    /\ pc' = "split"
    /\ UNCHANGED <<source_chunks, embedded, build_error, vector_db,
                   total_requests_count, reqs, gets, shown>>

\* source_chunks = splitter.create_documents([raw_text])
SplitDocument ==
    /\ pc = "split"
    /\ source_chunks' = CreateDocuments(raw_text)
    /\ pc' = "embed"
    /\ UNCHANGED <<raw_text, embedded, build_error, vector_db,
                   total_requests_count, reqs, gets, shown>>

\* An incremental build: each embedded chunk is added to the shared index at once
EmbedNext_Publish ==
    /\ pc = "embed"
    /\ Len(embedded) < Len(source_chunks)
    /\ embedded' = Append(embedded, Embed(source_chunks[Len(embedded) + 1]))
    /\ vector_db' = Some(BuildIndex(SubSeq(source_chunks, 1, Len(embedded')), embedded'))
    /\ UNCHANGED <<pc, raw_text, source_chunks, build_error,
                   total_requests_count, reqs, gets, shown>>

\* FAISS.from_documents embeds the chunks; the vectors are held inside the call
EmbedNext ==
    /\ pc = "embed"
    /\ Len(embedded) < Len(source_chunks)
    /\ embedded' = Append(embedded, Embed(source_chunks[Len(embedded) + 1]))
    /\ UNCHANGED <<pc, raw_text, source_chunks, build_error, vector_db,
                   total_requests_count, reqs, gets, shown>>

\* every chunk has its vector: from_documents goes on to construct the index
EmbedDone ==
    /\ pc = "embed"
    /\ Len(embedded) = Len(source_chunks)
    /\ pc' = "index"
    /\ UNCHANGED <<raw_text, source_chunks, embedded, build_error, vector_db,
                   total_requests_count, reqs, gets, shown>>

\* vector_db = FAISS.from_documents(...) returns and is assigned; the try block
\* ends and lifespan yields.  With no chunk at all from_documents reads
\* embeddings[0] and raises, so only BuildException leaves that state.
ConstructIndex ==
    /\ pc = "index"
    /\ source_chunks # <<>>
    /\ vector_db' = Some(BuildIndex(source_chunks, embedded))
    /\ pc' = "serving"
    /\ UNCHANGED <<raw_text, source_chunks, embedded, build_error,
                   total_requests_count, reqs, gets, shown>>

\* A start-up without the except clause: the exception ends the process
BuildException_Uncaught ==
    /\ pc \in LoadingPcs
    /\ build_error' = pc
    /\ pc' = "crashed"
    /\ UNCHANGED <<raw_text, source_chunks, embedded, vector_db,
                   total_requests_count, reqs, gets, shown>>

\* A step of the try block raises: except Exception logs it and lifespan yields
BuildException ==
    /\ pc \in LoadingPcs
    /\ build_error' = pc
    /\ pc' = "serving"
    /\ UNCHANGED <<raw_text, source_chunks, embedded, vector_db,
                   total_requests_count, reqs, gets, shown>>

\* The code after yield: the index is dropped
Shutdown ==
    /\ pc = "serving"
    /\ vector_db' = None
    /\ pc' = "stopped"
    /\ UNCHANGED <<raw_text, source_chunks, embedded, build_error,
                   total_requests_count, reqs, gets, shown>>

----------------------------------------------------------------------------
(* The endpoints *)

\* Requests taken while the build still runs, as with a build in a background task
Accepting_DuringLoad == pc \in LoadingPcs \cup {"serving"}

\* The application takes requests between lifespan's yield and the shutdown
Accepting == pc = "serving"

Range(s) == {s[i] : i \in DOMAIN s}

\* The positions of the k entries nearest to qv, nearest first, the earlier
\* entry first among equally distant ones
RECURSIVE Nearest(_, _, _, _)
Nearest(ix, qv, k, picked) ==
    IF k <= 0 \/ Len(picked) = Len(ix) THEN picked
    ELSE LET rest == DOMAIN ix \ Range(picked)
             D(i) == Distance(ix[i].vector, qv)
             best == CHOOSE i \in rest :
                        \A j \in rest : D(i) < D(j) \/ (D(i) = D(j) /\ i <= j)
         IN  Nearest(ix, qv, k - 1, Append(picked, best))

\* A search that returns the first k entries without ranking them
SimilaritySearch_Unranked(ix, question, k) ==
    SubSeq(ix, 1, IF Len(ix) < k THEN Len(ix) ELSE k)

\* vector_db.similarity_search(question, k): the k nearest entries
SimilaritySearch(ix, question, k) ==
    LET at == Nearest(ix, Embed(question), k, <<>>)
    IN  [n \in 1..Len(at) |-> ix[at[n]]]

\* "\n\n".join([doc.page_content.strip() for doc in docs])
ContextOf(docs) ==
    Join([n \in 1..Len(docs) |-> Strip(docs[n].page_content)], <<"\n", "\n">>)

\* What can go wrong in the try block of ask_expert
Failures == {"none", "embedding", "generation"}

\* The body of ask_expert with the readiness check moved into the try block:
\* the search on None raises and the handler answers with the processing error
AskOutcome_CheckInsideTry(db, question, fail) ==
    IF db = None \/ fail = "embedding"
    THEN [status |-> ProcessingErrorStatus, searched |-> TRUE, generated |-> FALSE,
          docs |-> <<>>, context |-> <<>>]
    ELSE LET docs == SimilaritySearch(db[1], question, K)
         IN  [status |-> IF fail = "generation" THEN ProcessingErrorStatus
                         ELSE OkStatus,
              searched |-> TRUE, generated |-> TRUE, docs |-> docs,
              context |-> ContextOf(docs)]

\* The body of ask_expert after the counter: the response and what was called
AskOutcome(db, question, fail) ==
    IF db = None
    THEN [status |-> NotReadyStatus, searched |-> FALSE, generated |-> FALSE,
          docs |-> <<>>, context |-> <<>>]
    ELSE IF fail = "embedding"
    THEN [status |-> ProcessingErrorStatus, searched |-> TRUE, generated |-> FALSE,
          docs |-> <<>>, context |-> <<>>]
    ELSE LET docs == SimilaritySearch(db[1], question, K)
         IN  [status |-> IF fail = "generation" THEN ProcessingErrorStatus
                         ELSE OkStatus,
              searched |-> TRUE, generated |-> TRUE, docs |-> docs,
              context |-> ContextOf(docs)]

\* The record of a handled request
Handled(r, out) ==
    [state |-> "done", question |-> reqs[r].question,
     status |-> out.status, searched |-> out.searched,
     generated |-> out.generated, docs |-> out.docs,
     context |-> out.context, observed |-> Lifecycle]

\* A client's POST /ask reaches the server and waits for the event loop
Arrive(r) ==
    /\ Accepting
    /\ reqs[r].state = "none"
    /\ \E q \in Questions :
          reqs' = [reqs EXCEPT ![r] =
                      [NoRequest EXCEPT !.state = "pending", !.question = q]]
    /\ UNCHANGED <<pc, raw_text, source_chunks, embedded, build_error, vector_db,
                   total_requests_count, gets, shown>>

\* ask_expert answering a not-ready request by starting the load again
AskExpert_Reload(r) ==
    /\ Accepting
    /\ reqs[r].state = "pending"
    /\ total_requests_count' = total_requests_count + 1
    /\ pc' = IF vector_db = None THEN "fetch" ELSE pc
    /\ \E fail \in Failures :
          LET out == AskOutcome(vector_db, reqs[r].question, fail)
          IN  reqs' = [reqs EXCEPT ![r] = Handled(r, out)]
    /\ UNCHANGED <<raw_text, source_chunks, embedded, build_error, vector_db,
                   gets, shown>>

\* ask_expert taking the entries it retrieved out of the index
AskExpert_Consume(r) ==
    /\ Accepting
    /\ reqs[r].state = "pending"
    /\ total_requests_count' = total_requests_count + 1
    /\ \E fail \in Failures :
          LET out == AskOutcome(vector_db, reqs[r].question, fail)
          IN  /\ reqs' = [reqs EXCEPT ![r] = Handled(r, out)]
              /\ vector_db' = IF vector_db # None /\ out.docs # <<>>
                              THEN Some(SelectSeq(vector_db[1],
                                          LAMBDA e : e \notin Range(out.docs)))
                              ELSE vector_db
    /\ UNCHANGED <<pc, raw_text, source_chunks, embedded, build_error,
                   gets, shown>>

\* ask_expert with a read and a write of the counter that a request in flight
\* at the same time can fall between: that update is lost
AskExpert_Racy(r) ==
    /\ Accepting
    /\ reqs[r].state = "pending"
    /\ total_requests_count' =
          IF \E o \in DOMAIN reqs : o # r /\ reqs[o].state = "pending"
          THEN total_requests_count
          ELSE total_requests_count + 1
    /\ \E fail \in Failures :
          LET out == AskOutcome(vector_db, reqs[r].question, fail)
          IN  reqs' = [reqs EXCEPT ![r] = Handled(r, out)]
    /\ UNCHANGED <<pc, raw_text, source_chunks, embedded, build_error, vector_db,
                   gets, shown>>

\* ask_expert dropping the index when its try block fails
AskExpert_ResetOnError(r) ==
    /\ Accepting
    /\ reqs[r].state = "pending"
    /\ total_requests_count' = total_requests_count + 1
    /\ \E fail \in Failures :
          LET out == AskOutcome(vector_db, reqs[r].question, fail)
          IN  /\ reqs' = [reqs EXCEPT ![r] = Handled(r, out)]
              /\ vector_db' = IF out.status = ProcessingErrorStatus
                              THEN None ELSE vector_db
    /\ UNCHANGED <<pc, raw_text, source_chunks, embedded, build_error,
                   gets, shown>>

\* ask_expert counting the request only after the readiness check
AskExpert_CountAfterCheck(r) ==
    /\ Accepting
    /\ reqs[r].state = "pending"
    /\ total_requests_count' =
          IF vector_db = None THEN total_requests_count
          ELSE total_requests_count + 1
    /\ \E fail \in Failures :
          LET out == AskOutcome(vector_db, reqs[r].question, fail)
          IN  reqs' = [reqs EXCEPT ![r] = Handled(r, out)]
    /\ UNCHANGED <<pc, raw_text, source_chunks, embedded, build_error, vector_db,
                   gets, shown>>

\* ask_expert(request), from its first line to its response
AskExpert(r) ==
    /\ Accepting
    /\ reqs[r].state = "pending"
    /\ total_requests_count' = total_requests_count + 1
    /\ \E fail \in Failures :
          LET out == AskOutcome(vector_db, reqs[r].question, fail)
          IN  reqs' = [reqs EXCEPT ![r] = Handled(r, out)]
    /\ UNCHANGED <<pc, raw_text, source_chunks, embedded, build_error, vector_db,
                   gets, shown>>

\* get_stats()
GetStats ==
    /\ Accepting
    /\ gets < MaxGets
    /\ gets' = gets + 1
    /\ shown' = [endpoint |-> "stats", total |-> total_requests_count]
    /\ UNCHANGED <<pc, raw_text, source_chunks, embedded, build_error, vector_db,
                   total_requests_count, reqs>>

\* root(): the page with the counter in it
Root ==
    /\ Accepting
    /\ gets < MaxGets
    /\ gets' = gets + 1
    /\ shown' = [endpoint |-> "root", total |-> total_requests_count]
    /\ UNCHANGED <<pc, raw_text, source_chunks, embedded, build_error, vector_db,
                   total_requests_count, reqs>>

Next ==
    \/ StartLifespan
    \/ LoadDocumentText
    \/ SplitDocument
    \/ EmbedNext
    \/ EmbedDone
    \/ ConstructIndex
    \/ BuildException
    \/ Shutdown
    \/ \E r \in 1..MaxReqs : Arrive(r)
    \/ \E r \in 1..MaxReqs : AskExpert(r)
    \/ GetStats
    \/ Root

Spec == Init /\ [][Next]_vars

----------------------------------------------------------------------------
(* Properties *)

Done(r) == reqs[r].state = "done"
Requests == DOMAIN reqs

\* C1: every /ask request handled while the knowledge base is not Ready
\* (vector_db is None) is answered 503, and neither the similarity search nor
\* the generation call was attempted for it.
C1_NotReadyRejected ==
    \A r \in Requests :
        Done(r) /\ reqs[r].observed # "Ready" =>
            /\ reqs[r].status = 503
            /\ ~reqs[r].searched
            /\ ~reqs[r].generated

\* A request was handled after the start-up build had failed
C1_Witness ==
    \E r \in Requests :
        Done(r) /\ reqs[r].observed = "Failed" /\ build_error = "fetch"

\* C2: an exception at any step of the start-up build is caught: no index is
\* installed, the process is not ended by it, it goes on to handle the
\* requests that arrive, and they are answered not ready.
C2_BuildFailureCaught ==
    build_error # "none" =>
        /\ pc \in {"serving", "stopped"}
        /\ vector_db = None
        /\ \A r \in Requests :
              /\ Done(r) => reqs[r].status = 503
              /\ pc = "serving" /\ reqs[r].state = "pending" => ENABLED AskExpert(r)

\* The build failed partway through embedding and a request was then rejected
C2_Witness ==
    /\ build_error = "embed"
    /\ Len(embedded) > 0
    /\ Len(embedded) < Len(source_chunks)
    /\ \E r \in Requests : Done(r) /\ reqs[r].status = 503

\* C3: the build runs once, at start-up, and is over before any request is
\* taken: Loading is entered only from Uninitialized, Uninitialized is never
\* entered again, no request exists before the build is over, and every
\* handled request observed Ready or Failed.
C3_BuildOnceBeforeRequests ==
    /\ [][Lifecycle' = "Loading" /\ Lifecycle # "Loading"
            => Lifecycle = "Uninitialized"]_vars
    /\ [][Lifecycle # "Uninitialized" => Lifecycle' # "Uninitialized"]_vars
    /\ [](\A r \in Requests :
            /\ reqs[r].state # "none" => Lifecycle \notin {"Uninitialized", "Loading"}
            /\ Done(r) => reqs[r].observed \in {"Ready", "Failed"})

\* A request was handled on the index the start-up build installed
C3_Witness ==
    \E r \in Requests :
        Done(r) /\ reqs[r].observed = "Ready" /\ build_error = "none"

\* C4: Failed is terminal: from Failed the lifecycle stays Failed until the
\* process stops, whatever requests are served, and every request handled
\* in it is answered not ready.
C4_FailedIsTerminal ==
    /\ [][Lifecycle = "Failed" => Lifecycle' \in {"Failed", "Stopped"}]_vars
    /\ [][Lifecycle = "Failed" =>
            \A r \in Requests :
                reqs[r].state = "pending" /\ reqs'[r].state = "done"
                    => reqs'[r].status = 503]_vars

\* After a failed build all kinds of requests were served, and it is still Failed
C4_Witness ==
    /\ Lifecycle = "Failed"
    /\ gets = MaxGets
    /\ shown.endpoint = "root"
    /\ Cardinality({r \in Requests : Done(r)}) >= 2

\* C5: the shared index reference is absent or holds an index made of all
\* chunks of the document, each with its vector; after a failed build it is
\* absent.
C5_NoHalfBuiltIndex ==
    /\ vector_db # None =>
          LET chunks == CreateDocuments(raw_text)
              ix == vector_db[1]
          IN  /\ Len(ix) = Len(chunks)
              /\ \A i \in DOMAIN ix :
                    /\ ix[i].page_content = chunks[i]
                    /\ ix[i].vector = Embed(chunks[i])
    /\ build_error # "none" => vector_db = None

\* The build failed with some, not all, chunks embedded
C5_Witness ==
    /\ build_error = "embed"
    /\ Len(embedded) >= 2
    /\ Len(embedded) < Len(source_chunks)
    /\ pc = "serving"
    /\ vector_db = None

\* The index every request of a Ready process is served from
BuiltIndex ==
    LET chunks == CreateDocuments(raw_text)
    IN  [i \in 1..Len(chunks) |->
            [vector |-> Embed(chunks[i]), page_content |-> chunks[i]]]

\* C6: once Ready the index is only read: no request handler changes
\* vector_db, and every request handled on it has the context it would have
\* got alone on the index as built, whatever was handled before it.
C6_ReadyIndexReadOnly ==
    /\ [][Lifecycle = "Ready" /\ Lifecycle' # "Stopped"
            => vector_db' = vector_db]_vars
    /\ [](\A r \in Requests :
            Done(r) /\ reqs[r].observed = "Ready" /\ reqs[r].generated =>
                reqs[r].context =
                    ContextOf(SimilaritySearch(BuiltIndex, reqs[r].question, K)))

\* Two requests with different questions were answered from the same Ready index
C6_Witness ==
    \E r, o \in Requests :
        /\ r # o
        /\ Done(r) /\ Done(o)
        /\ reqs[r].status = 200 /\ reqs[o].status = 200
        /\ reqs[r].question # reqs[o].question
        /\ reqs[r].context # reqs[o].context
        /\ Lifecycle = "Ready"

\* C7: the counter never decreases, and once the N requests that arrived
\* have all been handled, in whatever order they arrived and were handled,
\* it has grown by exactly N.
C7_CounterNoLostUpdate ==
    /\ [][total_requests_count' >= total_requests_count]_vars
    /\ []((\A r \in Requests : reqs[r].state # "pending") =>
            total_requests_count = Cardinality({r \in Requests : reqs[r].state # "none"}))

\* Two requests have been handled on a Ready index and none is in flight
C7_Witness ==
    /\ \A r \in Requests : reqs[r].state # "pending"
    /\ \E r, o \in Requests : r # o /\ Done(r) /\ Done(o)
    /\ total_requests_count = Cardinality({r \in Requests : Done(r)})
    /\ Lifecycle = "Ready"

\* C8: a failure of the embedding or generation call on a Ready index is
\* answered 500, which is not the not-ready 503, and the step that fails
\* leaves the index, the lifecycle and every other request as they were.
C8_ProcessingErrorIsolated ==
    /\ [](\A r \in Requests :
            Done(r) /\ reqs[r].observed = "Ready" =>
                /\ reqs[r].status \in {200, 500}
                /\ reqs[r].status = 200 => reqs[r].searched /\ reqs[r].generated)
    /\ [][\A r \in Requests :
            reqs[r].state = "pending" /\ reqs'[r].state = "done"
              /\ reqs'[r].status # 200 /\ Lifecycle = "Ready" =>
                /\ reqs'[r].status = 500
                /\ vector_db' = vector_db
                /\ Lifecycle' = Lifecycle
                /\ \A o \in Requests \ {r} : reqs'[o] = reqs[o]]_vars

\* A request failed in the embedding call and another was answered from the
\* same index
C8_Witness ==
    \E r, a \in Requests :
        /\ Done(r) /\ reqs[r].status = 500 /\ ~reqs[r].generated
        /\ Done(a) /\ reqs[a].status = 200 /\ reqs[a].context # <<>>
        /\ Lifecycle = "Ready"

\* How often entry e occurs in sequence s
Occurrences(s, e) == Cardinality({i \in DOMAIN s : s[i] = e})

\* docs are min(4, size) entries of ix, nearest to the question first, and
\* no entry left out is nearer than one taken
FourNearestFirst(docs, ix, question) ==
    LET qv == Embed(question)
        D(e) == Distance(e.vector, qv)
    IN  /\ Len(docs) = IF Len(ix) < 4 THEN Len(ix) ELSE 4
        /\ \A e \in Range(docs) : Occurrences(docs, e) <= Occurrences(ix, e)
        /\ \A i, j \in DOMAIN docs : i < j => D(docs[i]) <= D(docs[j])
        /\ \A e \in Range(ix) :
              Occurrences(docs, e) < Occurrences(ix, e)
                  => \A d \in Range(docs) : D(d) <= D(e)

\* C9: the context of a request handled on a Ready index is the text of the
\* at most 4 nearest chunks, nearest first, joined by a blank line; with no
\* entries found it is the empty string.
C9_ContextFourNearest ==
    /\ \A r \in Requests :
          Done(r) /\ reqs[r].generated /\ vector_db # None =>
              /\ FourNearestFirst(reqs[r].docs, vector_db[1], reqs[r].question)
              /\ reqs[r].context =
                    Join([n \in 1..Len(reqs[r].docs) |-> reqs[r].docs[n].page_content],
                         <<"\n", "\n">>)
    /\ \A q \in Questions : AskOutcome(Some(<<>>), q, "none").context = <<>>

\* A request was answered from an index of more than 4 entries
C9_Witness ==
    \E r \in Requests :
        /\ Done(r) /\ reqs[r].status = 200
        /\ vector_db # None
        /\ Len(vector_db[1]) > 4
        /\ Len(reqs[r].docs) = 4
        /\ reqs[r].question = <<"b", " ", "b">>

\* C10: the counter equals the number of /ask requests handled, whatever
\* their outcome, the not-ready ones included; GET /stats and GET / leave it
\* as it is and show its value.
C10_CounterCountsEveryAsk ==
    /\ [](total_requests_count = Cardinality({r \in Requests : Done(r)}))
    /\ [][gets' # gets =>
            /\ total_requests_count' = total_requests_count
            /\ shown'.total = total_requests_count]_vars

\* Rejected requests have been counted and the counter was then read
C10_Witness ==
    /\ Lifecycle = "Failed"
    /\ \E r, o \in Requests : r # o /\ reqs[r].status = 503 /\ reqs[o].status = 503
    /\ shown = [endpoint |-> "stats", total |-> 2]

====
